---- MODULE Spec2Model ----
(***************************************************************************)
(* Model of WebLoginManager (src/src/index.ts): a cookie jar with expiry,  *)
(* the "log in if needed" decision of fetch, the login handshake and the   *)
(* merge of set-cookie response headers.  Strings are TLA+ strings, cut    *)
(* and joined the way the TypeScript code cuts and joins them.             *)
(***************************************************************************)
EXTENDS Integers, Sequences, FiniteSets, TLC

VARIABLES
  cookies,          \* this.cookies: sequence of [name, value, expires]
  now,              \* Date.now(), in clock ticks
  middlewaretoken,  \* this.middlewaretoken: <<>> is undefined, <<s>> the string s
  pc,               \* per caller: where its fetch call stands
  call,             \* per caller: arguments of its fetch call, the jar and the clock at the call
  sends,            \* per caller: the HTTP sends its fetch call has issued, in order
  page,             \* per caller: the text of the login page its login has fetched
  outcome,          \* per caller: how its fetch call ended
  received,         \* per caller: the set-cookie lists of the responses its call has got, in order
  jarOp             \* the last direct operation on the jar and what it returned

vars == <<cookies, now, middlewaretoken, pc, call, sends, page, outcome, received, jarOp>>

-----------------------------------------------------------------------------
(* Bounds of the model *)

MaxTime == 3

-----------------------------------------------------------------------------
(* Configuration handed to the constructor *)

baseURL == "http://h"
loginPath == "/login/"
username == "u"
password == "p"
sessionid == "sid"
TokenNames == {<<>>, <<"csrf">>}

Proc == {1, 2}

-----------------------------------------------------------------------------
(* String primitives of JavaScript used by the code *)

\* the value of an invalid Date; every instant of the model is >= 0
NaN == -1

\* s.substring(i - 1, j), 1-based and inclusive, cut to the string
Slice(s, i, j) ==
  IF i > j \/ i > Len(s) THEN "" ELSE SubSeq(s, i, IF j > Len(s) THEN Len(s) ELSE j)

Char(s, i) == Slice(s, i, i)

\* s.indexOf(t), 1-based, 0 when absent
IndexOf(s, t) ==
  LET hits == {i \in 1..(Len(s) - Len(t) + 1) : SubSeq(s, i, i + Len(t) - 1) = t}
  IN  IF hits = {} THEN 0 ELSE CHOOSE i \in hits : \A j \in hits : i <= j

\* s.includes(t)
Includes(s, t) == IndexOf(s, t) # 0

RECURSIVE Split(_, _)
\* s.split(sep) for a non-empty separator
Split(s, sep) ==
  LET i == IndexOf(s, sep)
  IN  IF i = 0 THEN <<s>>
      ELSE <<SubSeq(s, 1, i - 1)>> \o Split(SubSeq(s, i + Len(sep), Len(s)), sep)

RECURSIVE Trim(_)
\* s.trim()
Trim(s) ==
  IF Len(s) = 0 THEN s
  ELSE IF Char(s, 1) = " " THEN Trim(SubSeq(s, 2, Len(s)))
  ELSE IF Char(s, Len(s)) = " " THEN Trim(SubSeq(s, 1, Len(s) - 1))
  ELSE s

RECURSIVE Join(_, _)
\* a.join(sep)
Join(a, sep) ==
  IF Len(a) = 0 THEN ""
  ELSE IF Len(a) = 1 THEN a[1]
  ELSE a[1] \o sep \o Join(Tail(a), sep)

Digits == {"0", "1", "2", "3", "4", "5", "6", "7", "8", "9"}

DigitValue(c) ==
  CASE c = "0" -> 0 [] c = "1" -> 1 [] c = "2" -> 2 [] c = "3" -> 3 [] c = "4" -> 4
    [] c = "5" -> 5 [] c = "6" -> 6 [] c = "7" -> 7 [] c = "8" -> 8 [] c = "9" -> 9

\* new Date(text).valueOf(): the instant a date text names, NaN for a text that
\* is no date.  Date texts of the model are the decimal tick numbers.
DateValueOf(text) ==
  IF Len(text) = 1 /\ text \in Digits THEN DigitValue(text) ELSE NaN

\* d >= e of JavaScript numbers: false when e is NaN
AtOrAfter(d, e) == e # NaN /\ d >= e

WordChars ==
  {"a", "b", "c", "d", "e", "f", "g", "h", "i", "j", "k", "l", "m", "n", "o", "p", "q",
   "r", "s", "t", "u", "v", "w", "x", "y", "z", "_"} \cup Digits

RECURSIVE WordRun(_, _)
\* the longest run of word characters of s that starts at position i (\w+, greedy)
WordRun(s, i) ==
  IF i <= Len(s) /\ Char(s, i) \in WordChars THEN Char(s, i) \o WordRun(s, i + 1) ELSE ""

\* `${v}` of an optional string
Template(opt) == IF opt = <<>> THEN "undefined" ELSE opt[1]

\* truthiness of an optional string
Truthy(opt) == opt # <<>> /\ opt[1] # ""

-----------------------------------------------------------------------------
(* The cookie jar: getCookies and updateCookies *)

\* getCookies without the assignment of the filtered list to the jar
getCookiesUnfiltered(cs, d) ==
  LET marked == [i \in 1..Len(cs) |->
                   IF AtOrAfter(d, cs[i].expires) THEN [cs[i] EXCEPT !.value = ""]
                   ELSE cs[i]]
      a == [i \in 1..Len(cs) |-> marked[i].name \o "=" \o marked[i].value]
  IN  [header |-> Join(a, "; "), cookies |-> marked]

\* getCookies at clock d: the header it returns and the jar it leaves
getCookies(cs, d) ==
  LET marked == [i \in 1..Len(cs) |->
                   IF AtOrAfter(d, cs[i].expires) THEN [cs[i] EXCEPT !.value = ""]
                   ELSE cs[i]]
      a == [i \in 1..Len(cs) |-> marked[i].name \o "=" \o marked[i].value]
  IN  [header |-> Join(a, "; "),
       cookies |-> SelectSeq(marked, LAMBDA c : c.value # "")]

\* one set-cookie header cut into name, value and expiry; threw when a cut
\* yields undefined and the next .split is a TypeError
ParseSetCookie(cookie) ==
  LET byEq == Split(cookie, "=")
      byExpires == Split(cookie, "expires=")
  IN  IF Len(byEq) < 2 \/ Len(byExpires) < 2
      THEN [threw |-> TRUE, name |-> "", value |-> "", expires |-> NaN]
      ELSE [threw |-> FALSE,
            name |-> Trim(byEq[1]),
            value |-> Trim(Split(byEq[2], ";")[1]),
            expires |-> DateValueOf(Trim(Split(byExpires[2], ";")[1]))]

\* FindCookie with the comparison on the wrong field (c.value === name)
FindCookieByValue(cs, name) ==
  LET hits == {i \in 1..Len(cs) : cs[i].value = name}
  IN  IF hits = {} THEN 0 ELSE CHOOSE i \in hits : \A j \in hits : i <= j

\* this.cookies.find(c => c.name === name): index of the first match, 0 for none
FindCookie(cs, name) ==
  LET hits == {i \in 1..Len(cs) : cs[i].name = name}
  IN  IF hits = {} THEN 0 ELSE CHOOSE i \in hits : \A j \in hits : i <= j

\* StoreCookie without the lookup: every cookie is pushed
StoreCookieAppend(cs, c) ==
  Append(cs, [name |-> c.name, value |-> c.value, expires |-> c.expires])

\* updateCookies leaving an entry of the jar as it is when its name comes again
StoreCookieKeeping(cs, c) ==
  LET i == FindCookie(cs, c.name)
  IN  IF i # 0 THEN cs
      ELSE Append(cs, [name |-> c.name, value |-> c.value, expires |-> c.expires])

\* the update of the jar by one parsed cookie
StoreCookie(cs, c) ==
  LET i == FindCookie(cs, c.name)
  IN  IF i # 0
      THEN [cs EXCEPT ![i].value = c.value, ![i].expires = c.expires]
      ELSE Append(cs, [name |-> c.name, value |-> c.value, expires |-> c.expires])

RECURSIVE ForEachCookie(_, _)

\* the forEach of updateCookies passing over a header it cannot cut
ForEachCookieSkipping(cs, raw) ==
  IF raw = <<>> THEN [cookies |-> cs, threw |-> FALSE]
  ELSE LET c == ParseSetCookie(Head(raw))
           rest == ForEachCookie(IF c.threw THEN cs ELSE StoreCookie(cs, c), Tail(raw))
       IN  rest

\* cookies.forEach over the raw headers; a throw ends it with the jar as it is
ForEachCookie(cs, raw) ==
  IF raw = <<>> THEN [cookies |-> cs, threw |-> FALSE]
  ELSE LET c == ParseSetCookie(Head(raw))
       IN  IF c.threw THEN [cookies |-> cs, threw |-> TRUE]
           ELSE ForEachCookie(StoreCookie(cs, c), Tail(raw))

\* updateCookies returning before it stores anything
updateCookiesSkipped(cs, response) == [cookies |-> cs, threw |-> FALSE]

\* updateCookies(response): the jar it leaves and whether it threw
updateCookies(cs, response) == ForEachCookie(cs, response.setCookie)

-----------------------------------------------------------------------------
(* The login form *)

\* ExtractToken with a pattern that accepts double quotes only
ExtractTokenDoubleQuoted(text) ==
  LET field == Template(middlewaretoken)
      n == Len(field)
      hits == {i \in 1..Len(text) :
                 /\ Slice(text, i, i + n - 1) = field
                 /\ Slice(text, i + n, i + n + 8) = "\" value=\""
                 /\ WordRun(text, i + n + 9) # ""}
  IN  IF hits = {} THEN ""
      ELSE LET i == CHOOSE h \in hits : \A j \in hits : h <= j
           IN  WordRun(text, i + n + 9)

\* r.exec(text) with the capture read without the null test of line 79
ExtractTokenUnchecked(text) ==
  LET field == Template(middlewaretoken)
      n == Len(field)
      NonSpace(i) == i <= Len(text) /\ Char(text, i) # " "
      hits == {i \in 1..Len(text) :
                 /\ Slice(text, i, i + n - 1) = field
                 /\ NonSpace(i + n)
                 /\ Slice(text, i + n + 1, i + n + 7) = " value="
                 /\ NonSpace(i + n + 8)
                 /\ WordRun(text, i + n + 9) # ""}
  IN  IF hits = {} THEN "undefined"
      ELSE LET i == CHOOSE h \in hits : \A j \in hits : h <= j
           IN  WordRun(text, i + n + 9)

\* r.exec(text) for `${middlewaretoken}\S value=\S(\w+)`: the capture of the
\* leftmost match, "" when there is none
ExtractToken(text) ==
  LET field == Template(middlewaretoken)
      n == Len(field)
      NonSpace(i) == i <= Len(text) /\ Char(text, i) # " "
      hits == {i \in 1..Len(text) :
                 /\ Slice(text, i, i + n - 1) = field
                 /\ NonSpace(i + n)
                 /\ Slice(text, i + n + 1, i + n + 7) = " value="
                 /\ NonSpace(i + n + 8)
                 /\ WordRun(text, i + n + 9) # ""}
  IN  IF hits = {} THEN ""
      ELSE LET i == CHOOSE h \in hits : \A j \in hits : h <= j
           IN  WordRun(text, i + n + 9)

\* the body of the login POST
LoginBody(token) ==
  Template(middlewaretoken) \o "=" \o token \o "&username=" \o username
    \o "&password=" \o password

\* the options of the login POST
loginOptions(token) ==
  [method |-> "POST",
   redirect |-> "manual",
   headers |-> [contentType |-> "application/x-www-form-urlencoded"],
   body |-> LoginBody(token)]

\* the test of line 51 with a guard that lets one login run at a time
NeedsLoginSingleFlight(header) ==
  /\ ~Includes(header, sessionid)
  /\ \A q \in Proc : pc[q] \notin {"loginPage", "readText", "loginPost"}

\* !cookies.includes(this.sessionid)
NeedsLogin(header) == ~Includes(header, sessionid)

\* { ...options, headers: { ...options?.headers, cookie } }; undefined options are <<>>
WithCookie(options, cookie) ==
  LET given == IF "headers" \in DOMAIN options THEN options.headers ELSE <<>>
  IN  [headers |-> ([cookie |-> cookie] @@ given)] @@ options

\* the call fetch(this.baseURL + path, o) handed to node-fetch
Send(path, options, cookie) == [url |-> baseURL \o path, init |-> WithCookie(options, cookie)]

-----------------------------------------------------------------------------
(* What the server and the callers may hand to the program *)

SessionCookie == "sid=s1; Path=/; expires=2"
EmptySessionCookie == "sid=; expires=3"
OtherCookie == "xsid=a; expires=3"
CsrfCookie1 == "csrf=c1; expires=3; Path=/"
CsrfCookie2 == "csrf=c2; expires=3"
ExpiredCookie == "b=v; expires=0"
NoExpiresCookie == "bad=v; Path=/"

\* the set-cookie header lists a response may carry
HeaderLists ==
  {<<>>,
   <<SessionCookie>>,
   <<EmptySessionCookie>>,
   <<OtherCookie>>,
   <<CsrfCookie1>>,
   <<CsrfCookie1, ExpiredCookie>>,
   <<CsrfCookie1, NoExpiresCookie, SessionCookie>>}

\* the set-cookie header lists handed to updateCookies when the jar is driven
\* directly: those above, and lists that name one cookie twice
JarLists ==
  HeaderLists \cup {<<CsrfCookie2>>,
                    <<CsrfCookie1, CsrfCookie2>>,
                    <<SessionCookie, OtherCookie, EmptySessionCookie>>}

\* login page bodies: the form in double quotes, in single quotes, no form
DoubleQuotedForm == "<input name=\"csrf\" value=\"t1\">"
SingleQuotedForm == "<input name='csrf' value='t2'>"
NoForm == "<html>"

Texts == {DoubleQuotedForm, SingleQuotedForm, NoForm}

PageResponses == [setCookie : HeaderLists, text : Texts]

Responses == [setCookie : HeaderLists, text : {NoForm}]

Paths == {"/protected"}

\* the options argument of a caller; <<>> is undefined
CallerOptions == {<<>>, [headers |-> [cookie |-> "stale=1"]]}

NoCall == [path |-> "", options |-> <<>>, skipLogin |-> FALSE, cookies |-> <<>>, now |-> 0]

NoOutcome == [kind |-> "none", response |-> <<>>]

NoJarOp == [op |-> "none", raw |-> <<>>, header |-> "", threw |-> FALSE]

-----------------------------------------------------------------------------
(* The state machine *)

Init ==
  /\ cookies = <<>>
  /\ now = 0
  /\ middlewaretoken \in TokenNames
  /\ pc = [p \in Proc |-> "idle"]
  /\ call = [p \in Proc |-> NoCall]
  /\ sends = [p \in Proc |-> <<>>]
  /\ page = [p \in Proc |-> ""]
  /\ outcome = [p \in Proc |-> NoOutcome]
  /\ received = [p \in Proc |-> <<>>]
  /\ jarOp = NoJarOp

\* lines 57-59 of a fetch: the cookie header is read, the request is handed over
FetchSend(cs, path, options) ==
  LET g == getCookies(cs, now)
  IN  [cookies |-> g.cookies, send |-> Send(path, options, g.header)]

\* Date.now() moves on
Tick ==
  /\ now < MaxTime
  /\ now' = now + 1
  /\ UNCHANGED <<cookies, middlewaretoken, pc, call, sends, page, outcome, received, jarOp>>

\* a caller calls fetch(path, options, skipLogin); the call runs up to its first send
Fetch(p, path, options, skipLogin) ==
  /\ pc[p] \in {"idle", "returned", "rejected"}
  /\ LET first == getCookies(cookies, now)
         login == ~skipLogin /\ NeedsLogin(first.header)
         jar == IF skipLogin THEN cookies ELSE first.cookies
         s == IF ~login THEN FetchSend(jar, path, options)
              ELSE IF Truthy(middlewaretoken) THEN FetchSend(jar, loginPath, <<>>)
              ELSE FetchSend(jar, loginPath, loginOptions(""))
     IN  /\ cookies' = s.cookies
         /\ sends' = [sends EXCEPT ![p] = <<s.send>>]
         /\ pc' = [pc EXCEPT ![p] =
                     IF ~login THEN "request"
                     ELSE IF Truthy(middlewaretoken) THEN "loginPage" ELSE "loginPost"]
  /\ call' = [call EXCEPT ![p] = [path |-> path, options |-> options,
                                  skipLogin |-> skipLogin, cookies |-> cookies, now |-> now]]
  /\ page' = [page EXCEPT ![p] = ""]
  /\ outcome' = [outcome EXCEPT ![p] = NoOutcome]
  /\ received' = [received EXCEPT ![p] = <<>>]
  /\ UNCHANGED <<now, middlewaretoken, jarOp>>

\* the fetch call of caller p rejects
Reject(p, kind) ==
  /\ pc' = [pc EXCEPT ![p] = "rejected"]
  /\ outcome' = [outcome EXCEPT ![p] = [kind |-> kind, response |-> <<>>]]

\* the response to the login page GET arrives: its cookies are stored, its text is awaited
LoginPageArrives(p, res) ==
  /\ pc[p] = "loginPage"
  /\ LET u == updateCookies(cookies, res)
     IN  /\ cookies' = u.cookies
         /\ IF u.threw
            THEN Reject(p, "TypeError") /\ UNCHANGED page
            ELSE /\ pc' = [pc EXCEPT ![p] = "readText"]
                 /\ page' = [page EXCEPT ![p] = res.text]
                 /\ UNCHANGED outcome
  /\ received' = [received EXCEPT ![p] = Append(@, res.setCookie)]
  /\ UNCHANGED <<now, middlewaretoken, call, sends, jarOp>>

\* the text of the login page is there: the token is cut out and the login POST is sent
LoginPost(p) ==
  /\ pc[p] = "readText"
  /\ LET s == FetchSend(cookies, loginPath, loginOptions(ExtractToken(page[p])))
     IN  /\ cookies' = s.cookies
         /\ sends' = [sends EXCEPT ![p] = Append(@, s.send)]
  /\ pc' = [pc EXCEPT ![p] = "loginPost"]
  /\ UNCHANGED <<now, middlewaretoken, call, page, outcome, received, jarOp>>

\* a login that posts again while the jar shows no session after the POST response
LoginPostArrivesRelogin(p, res) ==
  /\ pc[p] = "loginPost"
  /\ LET u == updateCookies(cookies, res)
         again == NeedsLogin(getCookies(u.cookies, now).header)
         s == IF again
              THEN FetchSend(u.cookies, loginPath, loginOptions(ExtractToken(page[p])))
              ELSE FetchSend(u.cookies, call[p].path, call[p].options)
     IN  IF u.threw
         THEN /\ cookies' = u.cookies
              /\ Reject(p, "TypeError")
              /\ UNCHANGED sends
         ELSE /\ cookies' = s.cookies
              /\ sends' = [sends EXCEPT ![p] = Append(@, s.send)]
              /\ pc' = [pc EXCEPT ![p] = IF again THEN "loginPost" ELSE "request"]
              /\ UNCHANGED outcome
  /\ received' = [received EXCEPT ![p] = Append(@, res.setCookie)]
  /\ UNCHANGED <<now, middlewaretoken, call, page, jarOp>>

\* the response to the login POST arrives: its cookies are stored, login returns
\* and the request the caller asked for is sent
LoginPostArrives(p, res) ==
  /\ pc[p] = "loginPost"
  /\ LET u == updateCookies(cookies, res)
         s == FetchSend(u.cookies, call[p].path, call[p].options)
     IN  IF u.threw
         THEN /\ cookies' = u.cookies
              /\ Reject(p, "TypeError")
              /\ UNCHANGED sends
         ELSE /\ cookies' = s.cookies
              /\ sends' = [sends EXCEPT ![p] = Append(@, s.send)]
              /\ pc' = [pc EXCEPT ![p] = "request"]
              /\ UNCHANGED outcome
  /\ received' = [received EXCEPT ![p] = Append(@, res.setCookie)]
  /\ UNCHANGED <<now, middlewaretoken, call, page, jarOp>>

\* the response to the caller's request arrives: its cookies are stored, it is returned
ResponseArrives(p, res) ==
  /\ pc[p] = "request"
  /\ LET u == updateCookies(cookies, res)
     IN  /\ cookies' = u.cookies
         /\ IF u.threw
            THEN Reject(p, "TypeError")
            ELSE /\ pc' = [pc EXCEPT ![p] = "returned"]
                 /\ outcome' = [outcome EXCEPT ![p] = [kind |-> "response", response |-> <<res>>]]
  /\ received' = [received EXCEPT ![p] = Append(@, res.setCookie)]
  /\ UNCHANGED <<now, middlewaretoken, call, sends, page, jarOp>>

\* a failed send caught and issued again instead of rejecting the call
TransportFailsRetried(p) ==
  /\ pc[p] \in {"loginPage", "loginPost", "request"}
  /\ sends' = [sends EXCEPT ![p] = Append(@, @[Len(@)])]
  /\ UNCHANGED <<cookies, now, middlewaretoken, pc, call, page, outcome, received, jarOp>>

\* node-fetch rejects the send in flight
TransportFails(p) ==
  /\ pc[p] \in {"loginPage", "loginPost", "request"}
  /\ Reject(p, "transport")
  /\ UNCHANGED <<cookies, now, middlewaretoken, call, sends, page, received, jarOp>>

\* the callers of the serialized instance: one call at a time
Serial == {1}

Step(p) ==
  \/ \E path \in Paths, options \in CallerOptions, skipLogin \in BOOLEAN :
       Fetch(p, path, options, skipLogin)
  \/ \E res \in PageResponses : LoginPageArrives(p, res)
  \/ LoginPost(p)
  \/ \E res \in Responses : LoginPostArrives(p, res)
  \/ \E res \in Responses : ResponseArrives(p, res)
  \/ TransportFails(p)

Next == Tick \/ \E p \in Serial : Step(p)

Spec == Init /\ [][Next]_vars

\* the send caller p has in flight completes (response or failure), or the
\* body of its login page has been read
Completes(p) ==
  \/ \E res \in PageResponses : LoginPageArrives(p, res)
  \/ LoginPost(p)
  \/ \E res \in Responses : LoginPostArrives(p, res)
  \/ \E res \in Responses : ResponseArrives(p, res)
  \/ TransportFails(p)

-----------------------------------------------------------------------------
(* Two callers on one instance: their fetch calls interleave at every await *)

\* a login page with its own token and CSRF cookie per response
ConcPages ==
  { [setCookie |-> <<CsrfCookie1>>, text |-> DoubleQuotedForm],
    [setCookie |-> <<CsrfCookie2>>, text |-> SingleQuotedForm] }

\* responses to the login POST and to the request: with or without a session cookie
ConcResponses ==
  { [setCookie |-> <<>>, text |-> NoForm],
    [setCookie |-> <<SessionCookie>>, text |-> NoForm] }

ConcStep(p) ==
  \/ \E path \in Paths : Fetch(p, path, <<>>, FALSE)
  \/ \E res \in ConcPages : LoginPageArrives(p, res)
  \/ LoginPost(p)
  \/ \E res \in ConcResponses : LoginPostArrives(p, res)
  \/ \E res \in ConcResponses : ResponseArrives(p, res)
  \/ TransportFails(p)

ConcNext == \E p \in Proc : ConcStep(p)

ConcSpec == Init /\ [][ConcNext]_vars

-----------------------------------------------------------------------------
(* The jar driven directly: any order of updateCookies and getCookies *)

Merge(raw) ==
  /\ LET u == updateCookies(cookies, [setCookie |-> raw])
     IN  /\ cookies' = u.cookies
         /\ jarOp' = [op |-> "merge", raw |-> raw, header |-> "", threw |-> u.threw]
  /\ UNCHANGED <<now, middlewaretoken, pc, call, sends, page, outcome, received>>

Read ==
  /\ LET g == getCookies(cookies, now)
     IN  /\ cookies' = g.cookies
         /\ jarOp' = [op |-> "read", raw |-> <<>>, header |-> g.header, threw |-> FALSE]
  /\ UNCHANGED <<now, middlewaretoken, pc, call, sends, page, outcome, received>>

JarNext == Tick \/ Read \/ \E raw \in JarLists : Merge(raw)

JarSpec == Init /\ [][JarNext]_vars

-----------------------------------------------------------------------------
(* Vocabulary of the properties *)

\* the method of a send; node-fetch sends a GET when the options name none
Method(s) == IF "method" \in DOMAIN s.init THEN s.init.method ELSE "GET"

loginURL == baseURL \o loginPath

ToLogin(s) == s.url = loginURL

CookieHeader(s) == s.init.headers.cookie

\* the name=value pairs of a cookie header
Pairs(header) == IF header = "" THEN <<>> ELSE Split(header, "; ")

HasPair(header, pair) == \E i \in DOMAIN Pairs(header) : Pairs(header)[i] = pair

HasEntryFor(header, name) ==
  \E i \in DOMAIN Pairs(header) : Split(Pairs(header)[i], "=")[1] = name

Expired(c, d) == c.expires # NaN /\ c.expires <= d

\* the jar cs holds, at clock d, a non-expired cookie named exactly sessionid
ActiveSession(cs, d) ==
  \E i \in DOMAIN cs : cs[i].name = sessionid /\ ~Expired(cs[i], d)

\* the token each login page body of the model carries
TokenIn(text) ==
  CASE text = DoubleQuotedForm -> "t1"
    [] text = SingleQuotedForm -> "t2"
    [] OTHER -> ""

\* caller p has an authenticating call under way or ended
Authenticating(p) == pc[p] # "idle" /\ ~call[p].skipLogin

\* the call of caller p began with the login handshake
RanLogin(p) == Len(sends[p]) >= 1 /\ ToLogin(sends[p][1])

IsPrefix(a, b) == Len(a) <= Len(b) /\ a = SubSeq(b, 1, Len(a))

Shape(s) == <<Method(s), s.url>>

-----------------------------------------------------------------------------
(* Properties *)

\* C1: a call with skipLogin = false on an empty jar, with a CSRF field name
\* configured, sends a GET to loginPath, a POST to loginPath and the request to
\* path, in this order and nothing else: three sends when it returns; the POST
\* body is <field>=<token of the GET response body>&username=<u>&password=<p>.
C1_LoginHandshakeOnEmptyJar ==
  \A p \in Proc :
    (Authenticating(p) /\ call[p].cookies = <<>> /\ middlewaretoken = <<"csrf">>) =>
      /\ IsPrefix([i \in DOMAIN sends[p] |-> Shape(sends[p][i])],
                  <<<<"GET", loginURL>>, <<"POST", loginURL>>,
                    <<"GET", baseURL \o call[p].path>>>>)
      /\ pc[p] \in {"request", "returned"} => Len(sends[p]) = 3
      /\ pc[p] = "loginPost" => Len(sends[p]) = 2
      /\ Len(sends[p]) >= 2 =>
           sends[p][2].init.body =
             "csrf=" \o TokenIn(page[p]) \o "&username=" \o username \o "&password=" \o password

C1_Witness ==
  \E p \in Proc :
    /\ Authenticating(p) /\ call[p].cookies = <<>> /\ middlewaretoken = <<"csrf">>
    /\ pc[p] = "returned"
    /\ Len(sends[p]) = 3
    /\ page[p] = SingleQuotedForm
    /\ sends[p][2].init.body = "csrf=t2&username=u&password=p"

\* C2: when the jar holds a non-expired cookie named sessionid with value v at
\* the call of fetch with skipLogin = false, the call sends nothing to loginPath
\* and its single send carries a cookie header with the pair sessionid=v.
C2_ActiveSessionSkipsLogin ==
  \A p \in Proc :
    \A i \in DOMAIN call[p].cookies :
      (/\ Authenticating(p)
       /\ call[p].cookies[i].name = sessionid
       /\ ~Expired(call[p].cookies[i], call[p].now)) =>
        /\ Len(sends[p]) = 1
        /\ ~ToLogin(sends[p][1])
        /\ HasPair(CookieHeader(sends[p][1]), sessionid \o "=" \o call[p].cookies[i].value)

\* C2 restricted to a session cookie whose value is not empty
C2_NonEmptySessionSkipsLogin ==
  \A p \in Proc :
    \A i \in DOMAIN call[p].cookies :
      (/\ Authenticating(p)
       /\ call[p].cookies[i].name = sessionid
       /\ call[p].cookies[i].value # ""
       /\ ~Expired(call[p].cookies[i], call[p].now)) =>
        /\ Len(sends[p]) = 1
        /\ ~ToLogin(sends[p][1])
        /\ HasPair(CookieHeader(sends[p][1]), sessionid \o "=" \o call[p].cookies[i].value)

\* C3 (its first sentence): when the stored session cookie has expired at the
\* call of fetch with skipLogin = false (clock >= expiry), the call runs the
\* login handshake before it sends its request.
C3_ExpiredSessionRunsLogin ==
  \A p \in Proc :
    \A i \in DOMAIN call[p].cookies :
      (/\ Authenticating(p)
       /\ call[p].cookies[i].name = sessionid
       /\ Expired(call[p].cookies[i], call[p].now)) => RanLogin(p)

\* C4: the header getCookies returns holds no entry for a stored cookie whose
\* expiry is at or before the clock of the read (seen on the first send of a
\* call with skipLogin = true, whose header is one read of the jar at the call).
C4_HeaderExcludesExpired ==
  \A p \in Proc :
    (pc[p] # "idle" /\ call[p].skipLogin) =>
      \A i \in DOMAIN call[p].cookies :
        Expired(call[p].cookies[i], call[p].now) =>
          ~HasEntryFor(CookieHeader(sends[p][1]), call[p].cookies[i].name)

\* C5: with no CSRF field name configured, login sends one request, a POST to
\* loginPath, with the body username=<u>&password=<p> and nothing before it.
C5_LoginWithoutTokenField ==
  \A p \in Proc :
    (Authenticating(p) /\ middlewaretoken = <<>> /\ RanLogin(p)) =>
      /\ Method(sends[p][1]) = "POST"
      /\ \A i \in DOMAIN sends[p] : i > 1 => ~ToLogin(sends[p][i])
      /\ sends[p][1].init.body = "username=" \o username \o "&password=" \o password

\* C6: a call with skipLogin = false runs the login handshake if and only if the
\* jar at the call holds no non-expired cookie named exactly sessionid.
C6_LoginIffNoActiveSession ==
  \A p \in Proc :
    Authenticating(p) => (RanLogin(p) <=> ~ActiveSession(call[p].cookies, call[p].now))

\* what each set-cookie header of the model says, read off the header by hand
Said(h) ==
  CASE h = SessionCookie -> [name |-> "sid", value |-> "s1", expires |-> 2]
    [] h = EmptySessionCookie -> [name |-> "sid", value |-> "", expires |-> 3]
    [] h = OtherCookie -> [name |-> "xsid", value |-> "a", expires |-> 3]
    [] h = CsrfCookie1 -> [name |-> "csrf", value |-> "c1", expires |-> 3]
    [] h = CsrfCookie2 -> [name |-> "csrf", value |-> "c2", expires |-> 3]
    [] h = ExpiredCookie -> [name |-> "b", value |-> "v", expires |-> 0]
    [] h = NoExpiresCookie -> [name |-> "bad", value |-> "v", expires |-> NaN]

UniqueNames ==
  \A i, j \in DOMAIN cookies : cookies[i].name = cookies[j].name => i = j

\* this step is an updateCookies on the jar driven directly
MergeStep == jarOp'.op = "merge" /\ now' = now

\* a merge keeps every entry where it is, changes only entries its headers
\* name, adds entries only for names its headers carry, and a single header
\* for a name leaves one entry of that name, with the header's value and expiry
MergeInPlace ==
  MergeStep =>
    LET raw == jarOp'.raw
        named == {Said(raw[k]).name : k \in DOMAIN raw}
    IN  /\ Len(cookies') >= Len(cookies)
        /\ \A i \in DOMAIN cookies :
             /\ cookies'[i].name = cookies[i].name
             /\ cookies[i].name \notin named => cookies'[i] = cookies[i]
        /\ \A i \in DOMAIN cookies' : i > Len(cookies) => cookies'[i].name \in named
        /\ (Len(raw) = 1 /\ ~jarOp'.threw) =>
             /\ Cardinality({i \in DOMAIN cookies' : cookies'[i].name = Said(raw[1]).name}) = 1
             /\ \E i \in DOMAIN cookies' : cookies'[i] = Said(raw[1])

\* C7: after any sequence of updateCookies and getCookies the jar holds no two
\* entries of one name; a merge of a header whose name is in the jar replaces
\* the value and the expiry of that entry, leaves the other entries as they
\* are and adds no second entry.
C7_OneEntryPerName == []UniqueNames /\ [][MergeInPlace]_vars

C7_Witness ==
  /\ jarOp.op = "merge"
  /\ jarOp.raw = <<CsrfCookie1, CsrfCookie2>>
  /\ Len(cookies) = 3
  /\ cookies[1] = [name |-> "csrf", value |-> "c2", expires |-> 3]

\* C8: updateCookies is idempotent: after a merge of a list of well-formed
\* headers, merging the same list again (the clock not moved) leaves the jar as
\* it is, and with it the header getCookies computes.
C8_MergeIdempotent ==
  (jarOp.op = "merge" /\ ~jarOp.threw) =>
    LET again == updateCookies(cookies, [setCookie |-> jarOp.raw])
    IN  /\ ~again.threw
        /\ again.cookies = cookies
        /\ getCookies(again.cookies, now).header = getCookies(cookies, now).header

C8_Witness ==
  /\ jarOp.op = "merge" /\ ~jarOp.threw
  /\ jarOp.raw = <<SessionCookie, OtherCookie, EmptySessionCookie>>
  /\ Len(cookies) = 4
  /\ \E i \in DOMAIN cookies : cookies[i] = [name |-> "sid", value |-> "", expires |-> 3]

\* C9: a fetch call ends in one of two ways: it rejects with the failure of the
\* transport, or it returns the response of the transport; no response content
\* makes it reject with an error of its own.
C9_OnlyTransportFailures ==
  \A p \in Proc :
    /\ pc[p] = "rejected" => outcome[p].kind = "transport"
    /\ pc[p] = "returned" => outcome[p].kind = "response" /\ Len(outcome[p].response) = 1

\* the login of the call of caller p was rejected: the call ran the handshake,
\* has returned, and the jar holds no cookie named sessionid
LoginRejected(p) ==
  /\ pc[p] = "returned" /\ ~call[p].skipLogin /\ RanLogin(p)
  /\ \A i \in DOMAIN cookies : cookies[i].name # sessionid

\* caller p begins a new call in this step
CallBegins(p) == pc[p] \in {"idle", "returned", "rejected"} /\ pc'[p] \notin {"idle", "returned", "rejected"}

\* a call runs the handshake at most once, and a returned call has sent its request last
OncePerCall ==
  \A p \in Proc :
    /\ Cardinality({i \in DOMAIN sends[p] : ToLogin(sends[p][i]) /\ Method(sends[p][i]) = "POST"}) <= 1
    /\ Cardinality({i \in DOMAIN sends[p] : ToLogin(sends[p][i]) /\ Method(sends[p][i]) = "GET"}) <= 1
    /\ pc[p] = "returned" =>
         /\ sends[p][Len(sends[p])].url = baseURL \o call[p].path
         /\ outcome[p].kind = "response"

\* C10: after a rejected login (the jar is left without a session cookie) the
\* call still sends its request and returns the response, and every later call
\* with skipLogin = false runs the login handshake again, once per call.
C10_RejectedLoginIsRetried ==
  /\ []OncePerCall
  /\ [][\A p \in Proc :
          (LoginRejected(p) /\ CallBegins(p) /\ ~call'[p].skipLogin) => ToLogin(sends'[p][1])]_vars

\* C11: with a CSRF field name configured, a login whose page body holds no
\* match for the token raises no error: once the body is read the login POST is
\* sent (no rejection in between) and its body is
\* <field>=&username=<u>&password=<p>, the token being the empty string.
C11_NoTokenMatchStillPosts ==
  \A p \in Proc :
    (middlewaretoken = <<"csrf">> /\ page[p] = NoForm /\ pc[p] # "readText") =>
      /\ Len(sends[p]) >= 2
      /\ Shape(sends[p][2]) = <<"POST", loginURL>>
      /\ sends[p][2].init.body = "csrf=&username=" \o username \o "&password=" \o password

C11_Witness ==
  \E p \in Proc :
    /\ middlewaretoken = <<"csrf">>
    /\ page[p] = NoForm
    /\ pc[p] = "returned"
    /\ Len(sends[p]) = 3
    /\ sends[p][2].init.body = "csrf=&username=u&password=p"

\* the call of caller p ended with the failure of one of its sends
TransportFailed(p) == outcome[p].kind = "transport"

\* no send of a call is issued twice
NoSendRepeated ==
  \A p \in Proc :
    \A i, j \in DOMAIN sends[p] : i # j => Shape(sends[p][i]) # Shape(sends[p][j])

\* C12: when a send of a fetch call fails (login page GET, login POST or the
\* request itself), the call is rejected with that failure at that step, the
\* failed send is the last send of the call (it is not issued again and no later
\* send follows: no POST and no request after a failed login GET, no request
\* after a failed login POST), the failed send has brought no set-cookie list
\* and the step leaves the jar as it was.
C12_FailureEndsTheCall ==
  /\ [](NoSendRepeated /\ \A p \in Proc : TransportFailed(p) =>
          /\ pc[p] = "rejected"
          /\ Len(received[p]) = Len(sends[p]) - 1)
  /\ [][\A p \in Proc :
          /\ (~TransportFailed(p) /\ TransportFailed(p)') =>
               (cookies' = cookies /\ sends' = sends /\ received' = received)
          /\ (TransportFailed(p) /\ TransportFailed(p)') => sends'[p] = sends[p]]_vars

C12_Witness ==
  \E p \in Proc :
    /\ TransportFailed(p)
    /\ pc[p] = "rejected"
    /\ Len(sends[p]) = 1
    /\ Shape(sends[p][1]) = <<"GET", loginURL>>
    /\ cookies # <<>>

\* the jar cs holds the cookie c as the set-cookie header said it
Holds(cs, c) ==
  \E i \in DOMAIN cs :
    cs[i].name = c.name /\ cs[i].value = c.value /\ cs[i].expires = c.expires

\* C14: within a serialized call the set-cookie headers of each response are in
\* the jar before the next send builds its cookie header and before fetch
\* returns: the send that follows response j (the login POST after the login
\* page, the request after the login POST response) carries name=value of every
\* cookie response j set that has not expired, so the request carries the
\* session cookie the login POST response set; and at the return of fetch the
\* jar holds the cookies of the returned response.
C14_MergedBeforeNextSend ==
  \A p \in Proc :
    /\ \A j \in DOMAIN received[p] :
         j < Len(sends[p]) =>
           \A k \in DOMAIN received[p][j] :
             LET c == Said(received[p][j][k])
             IN  c.expires > now =>
                   HasPair(CookieHeader(sends[p][j + 1]), c.name \o "=" \o c.value)
    /\ pc[p] = "returned" =>
         \A k \in DOMAIN outcome[p].response[1].setCookie :
           Holds(cookies, Said(outcome[p].response[1].setCookie[k]))

C14_Witness ==
  \E p \in Proc :
    /\ pc[p] = "returned"
    /\ Len(sends[p]) = 3
    /\ received[p] = <<<<CsrfCookie1>>, <<SessionCookie>>, <<OtherCookie>>>>
    /\ HasPair(CookieHeader(sends[p][2]), "csrf=c1")
    /\ HasPair(CookieHeader(sends[p][3]), "sid=s1")
    /\ Holds(cookies, Said(OtherCookie))

InFlight(p) == pc[p] \in {"loginPage", "readText", "loginPost", "request"}

SendsBounded ==
  \A p \in Proc :
    /\ Len(sends[p]) <= 3
    /\ Cardinality({i \in DOMAIN sends[p] : ToLogin(sends[p][i])}) <= 2
    /\ \A i \in DOMAIN sends[p] : i < Len(sends[p]) => ToLogin(sends[p][i])
    /\ (pc[p] # "idle" /\ call[p].skipLogin) =>
         (Len(sends[p]) = 1 /\ ~ToLogin(sends[p][1]))

\* how far the call of a caller has got
Rank(state) ==
  CASE state = "loginPage" -> 1
    [] state = "readText" -> 2
    [] state = "loginPost" -> 3
    [] state = "request" -> 4
    [] state \in {"returned", "rejected"} -> 5
    [] OTHER -> 0

\* C15: a call with skipLogin = true sends its one request and nothing to
\* loginPath; login's own sends start no further login, so a call issues at most
\* three sends, at most two of them to loginPath and those before the request;
\* and a call ends when its sends complete: while it is in flight the completion
\* of its send (response or failure) is a step it can take, and every step of
\* the call moves it strictly on towards its return or rejection, at most four
\* steps away.
C15_BoundedAndCompletes ==
  /\ [](SendsBounded /\ \A p \in Proc : InFlight(p) => ENABLED Completes(p))
  /\ [][\A p \in Proc :
          (InFlight(p) /\ <<pc[p], sends[p], received[p]>> # <<pc'[p], sends'[p], received'[p]>>) =>
            Rank(pc'[p]) > Rank(pc[p])]_vars

C15_Witness ==
  \E p \in Proc :
    /\ pc[p] = "returned"
    /\ ~call[p].skipLogin
    /\ Len(sends[p]) = 3
    /\ Cardinality({i \in DOMAIN sends[p] : ToLogin(sends[p][i])}) = 2
    /\ NeedsLogin(getCookies(cookies, now).header)

\* this step is a getCookies on the jar driven directly
ReadStep == jarOp'.op = "read" /\ now' = now

\* the names of the entries of the jar cs
Names(cs) == {cs[i].name : i \in DOMAIN cs}

\* C16: a getCookies at clock now leaves no entry in the jar whose expiry is at
\* or before now; and a name that is not in the jar (never stored, or removed)
\* comes into the jar only by an updateCookies whose set-cookie list has a
\* header with that name.
C16_EvictedUntilMergedAgain ==
  [][/\ ReadStep => \A i \in DOMAIN cookies' : ~Expired(cookies'[i], now)
     /\ \A n \in Names(cookies') \ Names(cookies) :
          /\ MergeStep
          /\ \E k \in DOMAIN jarOp'.raw : Said(jarOp'.raw[k]).name = n]_vars

C16_Witness ==
  /\ jarOp.op = "read"
  /\ jarOp.header = "sid=; csrf=c1"
  /\ now = 2
  /\ cookies = <<[name |-> "csrf", value |-> "c1", expires |-> 3]>>

\* C17: getCookies removes an entry from the jar if and only if its expiry is
\* at or before the clock of the read; an entry whose expiry lies after it stays,
\* whatever its value, the empty value included.
C17_EvictsExactlyExpired ==
  [][ReadStep =>
       \A i \in DOMAIN cookies :
         (cookies[i].name \notin Names(cookies')) <=> Expired(cookies[i], now)]_vars

\* the header of the entries of cs not expired at clock d: name=value, in the
\* order of the jar, joined by "; "
LiveHeader(cs, d) ==
  LET live == SelectSeq(cs, LAMBDA c : ~Expired(c, d))
  IN  Join([i \in DOMAIN live |-> live[i].name \o "=" \o live[i].value], "; ")

\* C18: the header getCookies returns at clock now is exactly the entries not
\* expired at now, each as name=value, in the order they came into the jar,
\* joined by "; ", and "" when there is none; so a cookie (n, v, e) that was
\* merged shows in it as n=v, once, at every read with now < e.
C18_HeaderIsTheLiveEntries ==
  [][ReadStep => jarOp'.header = LiveHeader(cookies, now)]_vars

\* the first header of the list raw without expires=, 0 when every header has one
FirstWithoutExpires(raw) ==
  LET bad == {k \in DOMAIN raw : ~Includes(raw[k], "expires=")}
  IN  IF bad = {} THEN 0 ELSE CHOOSE k \in bad : \A j \in bad : k <= j

\* C19: a response whose set-cookie list has at position k a header without
\* expires= makes the merge fail at k and the fetch call reject with that
\* failure instead of returning; the headers before k are applied and stay in
\* the jar, header k and the headers after it are not applied: every entry they
\* do not name is as it was, and no entry is added for another name.
C19_MergeFailsPartWay ==
  [][\A p \in Proc :
       (received'[p] # received[p] /\ received'[p] # <<>>) =>
         LET raw == received'[p][Len(received'[p])]
             k == FirstWithoutExpires(raw)
             before == {Said(raw[j]) : j \in 1..(k - 1)}
         IN  k > 0 =>
               /\ pc'[p] = "rejected"
               /\ outcome'[p].kind = "TypeError"
               /\ sends'[p] = sends[p]
               /\ \A c \in before : Holds(cookies', c)
               /\ Len(cookies') >= Len(cookies)
               /\ \A i \in DOMAIN cookies :
                    cookies[i].name \notin {c.name : c \in before} => cookies'[i] = cookies[i]
               /\ \A i \in DOMAIN cookies' :
                    i > Len(cookies) => cookies'[i].name \in {c.name : c \in before}]_vars

C19_Witness ==
  \E p \in Proc :
    /\ pc[p] = "rejected"
    /\ outcome[p].kind = "TypeError"
    /\ Len(sends[p]) = 3
    /\ received[p][3] = <<CsrfCookie1, NoExpiresCookie, SessionCookie>>
    /\ cookies = <<[name |-> "csrf", value |-> "c1", expires |-> 3]>>

\* the login handshake of caller p is in flight
LoginInFlight(p) == pc[p] \in {"loginPage", "readText", "loginPost"}

\* C13: login is not single-flight. A fetch call with skipLogin = false that
\* begins while the login handshake of another call is in flight, on a jar with
\* no cookie named sessionid, passes the session test as well and starts a login
\* handshake of its own, the other one still in flight; so the state with two
\* handshakes in flight at once is reachable (the witness).
C13_LoginNotSingleFlight ==
  [][\A p, q \in Proc :
       (/\ p # q
        /\ LoginInFlight(q)
        /\ CallBegins(p) /\ ~call'[p].skipLogin
        /\ sessionid \notin Names(cookies)) =>
         (LoginInFlight(p)' /\ RanLogin(p)' /\ LoginInFlight(q)')]_vars

C13_Witness ==
  /\ \A p \in Proc : LoginInFlight(p) /\ RanLogin(p) /\ ~call[p].skipLogin
  /\ \A p \in Proc : sessionid \notin Names(call[p].cookies)
  /\ sessionid \notin Names(cookies)
  /\ pc[1] = "loginPost" /\ pc[2] = "loginPage"

\* the value of the entry of the jar cs named n, <<>> when there is none
ValueOf(cs, n) ==
  IF n \in Names(cs) THEN <<(CHOOSE c \in {cs[i] : i \in DOMAIN cs} : c.name = n).value>>
  ELSE <<>>

\* caller p waits for the body of its login page: the page response is merged,
\* the login POST is not yet sent
ReadingPage(p) == pc[p] = "readText"

\* the login page response of another caller than p is merged in this step
OtherPageArrives(p) ==
  \E q \in Proc \ {p} : pc[q] = "loginPage" /\ received'[q] # received[q]

====
